---- MODULE Spec2Model ----
(***************************************************************************)
(* Model of the LearningJournal service worker (src/service-worker.js):    *)
(* the install / activate / fetch handlers, the cache storage they use     *)
(* (an ordered list of named buckets, each a map from request URL to       *)
(* response), the network they fetch from, and the part of the hosting     *)
(* runtime's lifecycle that the handlers' event.waitUntil /                *)
(* event.respondWith calls drive.                                          *)
(***************************************************************************)
EXTENDS Integers, Sequences, FiniteSets, TLC

\* ---------------------------------------------------------------- bounds
\* number of fetch events the runtime delivers in one behaviour
MaxReq == 2
\* number of distinct contents the origin server can answer with
MaxBody == 1

\* ------------------------------------------------------------- constants
CACHE_NAME == "learningpwa-cache-v3"

urlsToCache ==
  << "/", "/index.html", "/about.html", "/journal.html", "/projects.html",
     "/css/style.css", "/js/main.js", "/js/script.js", "/js/storage.js",
     "/js/browser.js", "/js/thirdparty.js", "/images/icon-192.png",
     "/images/icon-512.png", "/images/logo.png", "/images/profile.jpeg",
     "/manifest.json" >>

ManifestUrls == { urlsToCache[i] : i \in 1..Len(urlsToCache) }

\* Request URLs of the dynamic resource as loadReflections builds them:
\* `backend/reflections.json?t=${Date.now()}`, one per clock value.
ReflectionsUrls == { "backend/reflections.json?t=1", "backend/reflections.json?t=2" }

\* A static URL outside the manifest, which the manifest of an earlier
\* deployment listed.
OtherUrls == { "/old.html" }

AllUrls == ManifestUrls \cup ReflectionsUrls \cup OtherUrls

\* URLs a controlled page requests in the model.
FetchUrls == { "/index.html" } \cup ReflectionsUrls \cup OtherUrls

\* event.request.url.includes('reflections.json'), decided on the model's
\* URL universe: exactly the reflections URLs contain the marker.
UrlIncludesMarker(url) == url \in ReflectionsUrls

\* Buckets left behind by earlier deployments of the worker.
OldCacheNames == << "learningpwa-cache-v1", "learningpwa-cache-v2" >>

AllCacheNames == { OldCacheNames[i] : i \in 1..Len(OldCacheNames) } \cup { CACHE_NAME }

\* ------------------------------------------------------------- responses
Undefined == [type |-> "undefined"]
NetworkError == [type |-> "error"]
Pending == [type |-> "pending"]

Statuses == { 200, 500 }

\* The contents the origin server can answer with; 0 is the content the
\* earlier deployments cached.
Bodies == 1..MaxBody

\* A response of the origin server for url.
NetResponse(url, status, body) ==
  [type |-> "basic", url |-> url, status |-> status, body |-> body]

IsResponse(x) == x.type = "basic"

\* response.ok
Ok(resp) == resp.status >= 200 /\ resp.status <= 299

CloneBodyLost(resp) ==
  [type |-> resp.type, url |-> resp.url, status |-> resp.status, body |-> 0]

\* response.clone(): a second response with the same url, status and body.
Clone(resp) ==
  [type |-> resp.type, url |-> resp.url, status |-> resp.status, body |-> resp.body]

\* --------------------------------------------------------------- page
\* The value of Date.now() that loadReflections put into the request URL.
Timestamp(url) == IF url = "backend/reflections.json?t=1" THEN 1 ELSE 2

\* What loadReflections leaves in the journal list for the outcome of its
\* fetch: the entries of an OK response, the error message when the fetch
\* rejected (a network error, or a worker that responded with undefined)
\* or answered a non-OK status.
LoadReflectionsShows(response) ==
  IF IsResponse(response) /\ Ok(response)
  THEN [shows |-> "entries", body |-> response.body]
  ELSE [shows |-> "error", body |-> 0]

\* ----------------------------------------------------------- cache store
EmptyBucket == [u \in AllUrls |-> Undefined]

\* Content of a bucket written by an earlier deployment.
OldBucket ==
  [u \in AllUrls |->
     IF u \in { "/index.html", "/old.html", "backend/reflections.json?t=1" }
     THEN NetResponse(u, 200, 0) ELSE Undefined]

Range(s) == { s[i] : i \in 1..Len(s) }

SubSeqOf(s, keep) == SelectSeq(s, LAMBDA n : n \in keep)

VARIABLES
  swState,            \* worker state: parsed, installing, installed, activating, activated, redundant
  registrationActive, \* the registration's active worker: previous (the earlier deployment's), this
  installPc,          \* install handler: idle, open, addAll, done
  installPromise,     \* promise given to the install event's waitUntil
  activatePc,         \* activate handler: idle, keys, deleting, done
  activatePromise,    \* promise given to the activate event's waitUntil
  deletePromise,      \* deletePromise[name]: promise of the activate handler's caches.delete(name)
  claimed,            \* self.clients.claim() has been called
  cacheOrder,         \* names of the existing buckets, in creation order
  store,              \* store[name][url]: the entry of bucket name under url
  reqUrl,             \* reqUrl[r]: URL of fetch event r
  reqPc,              \* reqPc[r]: none, dynFetch, dynMatch, staticMatch, staticFetch, done
  netCalls,           \* netCalls[r]: fetch(event.request) calls made for r
  matchCalls,         \* matchCalls[r]: caches.match(event.request) calls made for r
  respondedWith,      \* respondedWith[r]: what respondWith's promise settled to
  responseToCache,    \* responseToCache[r]: the clone kept for the cache write
  putPc               \* putPc[r]: the cache write of r: none, put (started), done

vars == << swState, registrationActive, installPc, installPromise, activatePc,
           activatePromise, deletePromise, claimed, cacheOrder, store,
           reqUrl, reqPc, netCalls, matchCalls, respondedWith,
           responseToCache, putPc >>

lifecycleVars == << swState, registrationActive >>
installVars == << installPc, installPromise >>
activateVars == << activatePc, activatePromise, deletePromise, claimed >>
cacheVars == << cacheOrder, store >>
reqVars == << reqUrl, reqPc, netCalls, matchCalls, respondedWith, responseToCache, putPc >>

Reqs == 1..MaxReq

\* caches.has(name)
HasCache(name) == name \in Range(cacheOrder)

\* caches.open(name): the bucket list after opening, creating it when absent.
OpenedOrder(order, name) ==
  IF name \in Range(order) THEN order ELSE Append(order, name)

\* cache.match(url) on one bucket
BucketMatch(name, url) ==
  IF HasCache(name) THEN store[name][url] ELSE Undefined

CachesMatchIgnoreSearch(url) ==
  LET same(u) == u = url \/ (u \in ReflectionsUrls /\ url \in ReflectionsUrls)
      hits == { i \in 1..Len(cacheOrder) :
                  \E u \in AllUrls : same(u) /\ store[cacheOrder[i]][u] # Undefined }
  IN  IF hits = {} THEN Undefined
      ELSE LET first == CHOOSE i \in hits : \A j \in hits : i <= j
               u == CHOOSE u \in AllUrls : same(u) /\ store[cacheOrder[first]][u] # Undefined
           IN  store[cacheOrder[first]][u]

\* caches.match(request): the first hit over all buckets in creation order.
CachesMatch(url) ==
  LET hits == { i \in 1..Len(cacheOrder) : store[cacheOrder[i]][url] # Undefined }
  IN  IF hits = {} THEN Undefined
      ELSE LET first == CHOOSE i \in hits : \A j \in hits : i <= j
           IN  store[cacheOrder[first]][url]

PutEntryKeepExisting(st, name, url, resp) ==
  IF st[name][url] = Undefined
  THEN [st EXCEPT ![name] = [@ EXCEPT ![url] = resp]]
  ELSE st

\* cache.put(url, resp) on bucket name
PutEntry(st, name, url, resp) ==
  [st EXCEPT ![name] = [@ EXCEPT ![url] = resp]]

Init ==
  /\ swState = "parsed"
  /\ registrationActive = "previous"
  /\ installPc = "idle"
  /\ installPromise = "none"
  /\ activatePc = "idle"
  /\ activatePromise = "none"
  /\ deletePromise = [n \in AllCacheNames |-> "none"]
  /\ claimed = FALSE
  /\ \E existing \in { Range(SubSeq(OldCacheNames, 1, n)) : n \in 0..Len(OldCacheNames) } :
       /\ cacheOrder = SubSeqOf(OldCacheNames, existing)
       /\ store = [n \in AllCacheNames |-> IF n \in existing THEN OldBucket ELSE EmptyBucket]
  /\ reqUrl = [r \in Reqs |-> "/"]
  /\ reqPc = [r \in Reqs |-> "none"]
  /\ netCalls = [r \in Reqs |-> 0]
  /\ matchCalls = [r \in Reqs |-> 0]
  /\ respondedWith = [r \in Reqs |-> Pending]
  /\ responseToCache = [r \in Reqs |-> Undefined]
  /\ putPc = [r \in Reqs |-> "none"]

\* ------------------------------------------------------------- install
\* What cache.addAll's fetches produced, per manifest index: every entry
\* answers 200 with content body except entry bad (0: none), whose fetch
\* produced badOutcome.
Fetched(body, bad, badOutcome) ==
  [i \in 1..Len(urlsToCache) |->
     IF i = bad THEN badOutcome ELSE NetResponse(urlsToCache[i], 200, body)]

BadOutcomes(i, body) == { NetworkError, NetResponse(urlsToCache[i], 500, body) }

\* cache.addAll rejects when a fetch fails or answers a non-OK status.
AddAllFulfils(fetched) ==
  \A i \in DOMAIN fetched : IsResponse(fetched[i]) /\ Ok(fetched[i])

AddAllUpToFailure(bucket, fetched) ==
  [u \in AllUrls |->
     IF \E i \in DOMAIN fetched :
          /\ urlsToCache[i] = u
          /\ \A j \in 1..i : IsResponse(fetched[j]) /\ Ok(fetched[j])
     THEN fetched[CHOOSE i \in DOMAIN fetched : urlsToCache[i] = u]
     ELSE bucket[u]]

AddAllSkipLast(bucket, fetched) ==
  IF AddAllFulfils(fetched)
  THEN [u \in AllUrls |->
          IF \E i \in 1..(Len(urlsToCache) - 1) : urlsToCache[i] = u
          THEN fetched[CHOOSE i \in DOMAIN fetched : urlsToCache[i] = u]
          ELSE bucket[u]]
  ELSE bucket

\* cache.addAll(urlsToCache): the bucket after the call. Every response is
\* stored under its URL when all fetches succeeded, nothing is stored
\* otherwise.
AddAll(bucket, fetched) ==
  IF AddAllFulfils(fetched)
  THEN [u \in AllUrls |->
          IF u \in ManifestUrls
          THEN fetched[CHOOSE i \in DOMAIN fetched : urlsToCache[i] = u]
          ELSE bucket[u]]
  ELSE bucket

InstallLifetimeNotExtended == "fulfilled"

\* event.waitUntil(caches.open(...).then(...)) of the install handler: the
\* promise the runtime waits for before it ends the install phase.
InstallLifetime == installPromise

\* The runtime fires `install`; the handler calls caches.open and hands the
\* promise chain to event.waitUntil.
InstallEvent ==
  /\ swState = "parsed"
  /\ swState' = "installing"
  /\ installPc' = "open"
  /\ installPromise' = "pending"
  /\ UNCHANGED << registrationActive, activateVars, cacheVars, reqVars >>

\* caches.open(CACHE_NAME) resolves, creating the bucket when absent.
InstallOpen ==
  /\ installPc = "open"
  /\ cacheOrder' = OpenedOrder(cacheOrder, CACHE_NAME)
  /\ installPc' = "addAll"
  /\ UNCHANGED << lifecycleVars, installPromise, activateVars, store, reqVars >>

\* cache.addAll(urlsToCache) settles, and with it the promise chain.
InstallAddAll ==
  /\ installPc = "addAll"
  /\ \E body \in Bodies, bad \in 0..Len(urlsToCache) :
       \E badOutcome \in (IF bad = 0 THEN { Undefined } ELSE BadOutcomes(bad, body)) :
         LET fetched == Fetched(body, bad, badOutcome) IN
         /\ store' = [store EXCEPT ![CACHE_NAME] = AddAll(@, fetched)]
         /\ installPromise' = IF AddAllFulfils(fetched) THEN "fulfilled" ELSE "rejected"
  /\ installPc' = "done"
  /\ UNCHANGED << lifecycleVars, activateVars, cacheOrder, reqVars >>

\* The runtime ends the install phase once the event's lifetime promise has
\* settled: the worker becomes installed (waiting), or redundant on failure.
InstallDone ==
  /\ swState = "installing"
  /\ InstallLifetime # "pending"
  /\ swState' = IF InstallLifetime = "fulfilled" THEN "installed" ELSE "redundant"
  /\ UNCHANGED << registrationActive, installVars, activateVars, cacheVars, reqVars >>

\* ------------------------------------------------------------ activate
\* The caches.delete calls of the activate handler still in flight.
PendingDeletes == { n \in AllCacheNames : deletePromise[n] = "pending" }

NamesToDeleteNoGuard(cacheNames) == cacheNames

\* cacheNames.map(cacheName => { if (cacheName !== CACHE_NAME) return
\* caches.delete(cacheName); }): the names a delete is started for.
NamesToDelete(cacheNames) == { n \in cacheNames : n # CACHE_NAME }

ActivateLifetimeNotExtended == "fulfilled"

\* event.waitUntil(caches.keys().then(...)) of the activate handler.
ActivateLifetime == activatePromise

ClaimAfterCleanup(promise) == promise = "fulfilled"

\* self.clients.claim() is the statement after event.waitUntil(...) in the
\* handler body: it has been called once the handler has returned, whatever
\* the state of the cleanup promise.
ClaimCalled(promise) == TRUE

\* The runtime promotes the waiting worker and fires `activate`; the handler
\* calls caches.keys, hands the chain to event.waitUntil and then calls
\* self.clients.claim().
ActivateEvent ==
  /\ swState = "installed"
  /\ swState' = "activating"
  /\ registrationActive' = "this"
  /\ activatePc' = "keys"
  /\ activatePromise' = "pending"
  /\ claimed' = ClaimCalled("pending")
  /\ UNCHANGED << installVars, deletePromise, cacheVars, reqVars >>

\* caches.keys() settles. On success the .then callback starts one
\* caches.delete per stale name and Promise.all waits for them; with no
\* stale name Promise.all fulfils at once.
ActivateKeys ==
  /\ activatePc = "keys"
  /\ \/ LET started == NamesToDelete(Range(cacheOrder)) IN
        /\ deletePromise' = [n \in AllCacheNames |-> IF n \in started THEN "pending" ELSE "none"]
        /\ activatePc' = IF started = {} THEN "done" ELSE "deleting"
        /\ activatePromise' = IF started = {} THEN "fulfilled" ELSE "pending"
     \/ /\ activatePc' = "done"
        /\ activatePromise' = "rejected"
        /\ UNCHANGED deletePromise
  /\ claimed' = (claimed \/ ClaimCalled(activatePromise'))
  /\ UNCHANGED << lifecycleVars, installVars, cacheVars, reqVars >>

\* One caches.delete(cacheName) settles: the bucket is removed, or the
\* delete fails and the bucket stays. Promise.all rejects with the first
\* failure and fulfils when the last delete has succeeded.
ActivateDelete(name) ==
  /\ name \in PendingDeletes
  /\ LET rest == PendingDeletes \ { name } IN
     /\ activatePc' = IF rest = {} THEN "done" ELSE activatePc
     /\ \/ /\ cacheOrder' = SubSeqOf(cacheOrder, Range(cacheOrder) \ { name })
           /\ store' = [store EXCEPT ![name] = EmptyBucket]
           /\ deletePromise' = [deletePromise EXCEPT ![name] = "fulfilled"]
           /\ activatePromise' = IF rest = {} /\ activatePromise = "pending"
                                 THEN "fulfilled" ELSE activatePromise
        \/ /\ deletePromise' = [deletePromise EXCEPT ![name] = "rejected"]
           /\ activatePromise' = IF activatePromise = "pending" THEN "rejected" ELSE activatePromise
           /\ UNCHANGED cacheVars
  /\ claimed' = (claimed \/ ClaimCalled(activatePromise'))
  /\ UNCHANGED << lifecycleVars, installVars, reqVars >>

\* The runtime ends the activate phase once the event's lifetime promise has
\* settled, whatever its outcome.
ActivateDone ==
  /\ swState = "activating"
  /\ ActivateLifetime # "pending"
  /\ swState' = "activated"
  /\ UNCHANGED << registrationActive, installVars, activateVars, cacheVars, reqVars >>

\* --------------------------------------------------------------- fetch
\* The runtime delivers a fetch event to the active worker. The handler
\* tests the URL: for the dynamic resource it calls fetch(event.request),
\* otherwise caches.match(event.request).
FetchEvent(r, url) ==
  /\ swState = "activated"
  /\ registrationActive = "this"
  /\ reqPc[r] = "none"
  /\ \A q \in Reqs : q < r => reqPc[q] # "none"
  /\ reqUrl' = [reqUrl EXCEPT ![r] = url]
  /\ IF UrlIncludesMarker(url)
     THEN /\ reqPc' = [reqPc EXCEPT ![r] = "dynFetch"]
          /\ netCalls' = [netCalls EXCEPT ![r] = @ + 1]
          /\ UNCHANGED matchCalls
     ELSE /\ reqPc' = [reqPc EXCEPT ![r] = "staticMatch"]
          /\ matchCalls' = [matchCalls EXCEPT ![r] = @ + 1]
          /\ UNCHANGED netCalls
  /\ UNCHANGED << lifecycleVars, installVars, activateVars, cacheVars,
                  respondedWith, responseToCache, putPc >>

\* Network-first branch, fetch resolved: the .then callback clones the
\* response, starts caches.open(CACHE_NAME) for the write and returns the
\* response, which settles respondWith.
DynFetchResolve(r, status, body) ==
  /\ reqPc[r] = "dynFetch"
  /\ LET response == NetResponse(reqUrl[r], status, body) IN
     /\ responseToCache' = [responseToCache EXCEPT ![r] = Clone(response)]
     /\ respondedWith' = [respondedWith EXCEPT ![r] = response]
  /\ putPc' = [putPc EXCEPT ![r] = "put"]
  /\ reqPc' = [reqPc EXCEPT ![r] = "done"]
  /\ UNCHANGED << lifecycleVars, installVars, activateVars, cacheVars,
                  reqUrl, netCalls, matchCalls >>

PutTargetOtherKey(r) == CHOOSE u \in ReflectionsUrls : u # reqUrl[r]

\* The key cache.put(event.request, responseToCache) writes under.
PutTarget(r) == reqUrl[r]

\* The write, which nothing waits for: caches.open(CACHE_NAME) resolves,
\* creating the bucket when absent, and cache.put stores the clone under
\* the request's key.
DynCachePut(r) ==
  /\ putPc[r] = "put"
  /\ cacheOrder' = OpenedOrder(cacheOrder, CACHE_NAME)
  /\ store' = PutEntry(store, CACHE_NAME, PutTarget(r), responseToCache[r])
  /\ putPc' = [putPc EXCEPT ![r] = "done"]
  /\ UNCHANGED << lifecycleVars, installVars, activateVars,
                  reqUrl, reqPc, netCalls, matchCalls, respondedWith, responseToCache >>

\* Network-first branch, fetch rejected: the .catch callback calls
\* caches.match(event.request).
DynFetchReject(r) ==
  /\ reqPc[r] = "dynFetch"
  /\ reqPc' = [reqPc EXCEPT ![r] = "dynMatch"]
  /\ matchCalls' = [matchCalls EXCEPT ![r] = @ + 1]
  /\ UNCHANGED << lifecycleVars, installVars, activateVars, cacheVars,
                  reqUrl, netCalls, respondedWith, responseToCache, putPc >>

\* The fallback lookup resolves and settles respondWith with what it found.
DynMatch(r) ==
  /\ reqPc[r] = "dynMatch"
  /\ respondedWith' = [respondedWith EXCEPT ![r] = CachesMatch(reqUrl[r])]
  /\ reqPc' = [reqPc EXCEPT ![r] = "done"]
  /\ UNCHANGED << lifecycleVars, installVars, activateVars, cacheVars,
                  reqUrl, netCalls, matchCalls, responseToCache, putPc >>

ServeFromCacheNever(response) == FALSE

\* The left operand of `response || fetch(event.request)` is truthy.
ServeFromCache(response) == response # Undefined

\* Cache-first branch, caches.match resolved: `response || fetch(...)`.
StaticMatch(r) ==
  /\ reqPc[r] = "staticMatch"
  /\ LET response == CachesMatch(reqUrl[r]) IN
     IF ServeFromCache(response)
     THEN /\ respondedWith' = [respondedWith EXCEPT ![r] = response]
          /\ reqPc' = [reqPc EXCEPT ![r] = "done"]
          /\ UNCHANGED netCalls
     ELSE /\ netCalls' = [netCalls EXCEPT ![r] = @ + 1]
          /\ reqPc' = [reqPc EXCEPT ![r] = "staticFetch"]
          /\ UNCHANGED respondedWith
  /\ UNCHANGED << lifecycleVars, installVars, activateVars, cacheVars,
                  reqUrl, matchCalls, responseToCache, putPc >>

\* Cache-first branch, the network fetch resolved: its response settles
\* respondWith.
StaticFetchResolve(r, status, body) ==
  /\ reqPc[r] = "staticFetch"
  /\ respondedWith' = [respondedWith EXCEPT ![r] = NetResponse(reqUrl[r], status, body)]
  /\ reqPc' = [reqPc EXCEPT ![r] = "done"]
  /\ UNCHANGED << lifecycleVars, installVars, activateVars, cacheVars,
                  reqUrl, netCalls, matchCalls, responseToCache, putPc >>

StaticRejectionFallsBack(r) == CachesMatch(reqUrl[r])

\* What the promise chain of the cache-first branch settles to when
\* fetch(event.request) rejects: there is no .catch, the rejection reaches
\* respondWith.
StaticRejection(r) == NetworkError

\* Cache-first branch, the network fetch rejected: respondWith rejects and
\* the page sees a failed fetch.
StaticFetchReject(r) ==
  /\ reqPc[r] = "staticFetch"
  /\ respondedWith' = [respondedWith EXCEPT ![r] = StaticRejection(r)]
  /\ reqPc' = [reqPc EXCEPT ![r] = "done"]
  /\ UNCHANGED << lifecycleVars, installVars, activateVars, cacheVars,
                  reqUrl, netCalls, matchCalls, responseToCache, putPc >>

Next ==
  \/ InstallEvent
  \/ InstallOpen
  \/ InstallAddAll
  \/ InstallDone
  \/ ActivateEvent
  \/ ActivateKeys
  \/ \E name \in AllCacheNames : ActivateDelete(name)
  \/ ActivateDone
  \/ \E r \in Reqs, url \in FetchUrls : FetchEvent(r, url)
  \/ \E r \in Reqs, status \in Statuses, body \in Bodies : DynFetchResolve(r, status, body)
  \/ \E r \in Reqs : DynCachePut(r)
  \/ \E r \in Reqs : DynFetchReject(r)
  \/ \E r \in Reqs : DynMatch(r)
  \/ \E r \in Reqs : StaticMatch(r)
  \/ \E r \in Reqs, status \in Statuses, body \in Bodies : StaticFetchResolve(r, status, body)
  \/ \E r \in Reqs : StaticFetchReject(r)

Spec == Init /\ [][Next]_vars

\* =============================================================== claims
InstallSucceeded == swState \in { "installed", "activating", "activated" }

ManifestHeld == \A i \in 1..Len(urlsToCache) :
                  IsResponse(BucketMatch(CACHE_NAME, urlsToCache[i]))

\* C1: once install has completed successfully, looking up any manifest
\* path in the CACHE_NAME bucket returns a stored response.
C1_ManifestCachedAfterInstall == InstallSucceeded => ManifestHeld

C1_Witness == swState = "installed" /\ installPromise = "fulfilled" /\ ManifestHeld

KeysHeld(name) == { u \in AllUrls : BucketMatch(name, u) # Undefined }

\* C2: install is all-or-nothing. After an install in which a manifest
\* fetch failed the CACHE_NAME bucket holds no entry, and in no state does
\* the bucket hold a non-empty strict subset of the manifest.
C2_InstallAllOrNothing ==
  /\ installPromise = "rejected" => KeysHeld(CACHE_NAME) = {}
  /\ KeysHeld(CACHE_NAME) \cap ManifestUrls \in { {}, ManifestUrls }

C2_Witness ==
  /\ installPromise = "rejected"
  /\ swState = "redundant"
  /\ HasCache(CACHE_NAME)
  /\ KeysHeld(CACHE_NAME) = {}

C4_StoredCopyEqualsReturned ==
  [][\A r \in Reqs :
       /\ (reqPc[r] = "dynFetch" /\ reqPc'[r] = "done")
            => /\ \E status \in Statuses, body \in Bodies :
                    respondedWith'[r] = NetResponse(reqUrl[r], status, body)
               /\ responseToCache'[r] = respondedWith'[r]
       /\ (putPc[r] = "put" /\ putPc'[r] = "done")
            => BucketMatch(CACHE_NAME, reqUrl[r])' = respondedWith[r]]_vars

C4_Witness ==
  \E r \in Reqs :
    /\ putPc[r] = "done"
    /\ IsResponse(respondedWith[r])
    /\ respondedWith[r].body \in Bodies
    /\ BucketMatch(CACHE_NAME, reqUrl[r]) = respondedWith[r]

\* The requests whose network-first fetch resolved.
NetworkAnswered(r) == putPc[r] # "none"

\* C5 as stated: once a network response R has been returned on the dynamic
\* path, a lookup of the request's key in the bucket returns R.
C5_Original ==
  \A r \in Reqs :
    NetworkAnswered(r) => BucketMatch(CACHE_NAME, reqUrl[r]) = respondedWith[r]

\* C5, amended: once the cache write started for a returned network
\* response R has completed, a lookup of the request's key in the bucket
\* returns a network response whose write has completed (R, or the response
\* of another fetch of the same key written since), never the entry the
\* bucket held before.
C5_LookupAfterWriteCompleted ==
  \A r \in Reqs :
    putPc[r] = "done"
      => BucketMatch(CACHE_NAME, reqUrl[r])
           \in { respondedWith[q] : q \in { p \in Reqs : reqUrl[p] = reqUrl[r] /\ putPc[p] = "done" } }

C5_Witness ==
  \E r, q \in Reqs :
    /\ r # q
    /\ reqUrl[r] = reqUrl[q]
    /\ putPc[r] = "done" /\ putPc[q] = "done"
    /\ respondedWith[q] # respondedWith[r]
    /\ BucketMatch(CACHE_NAME, reqUrl[r]) = respondedWith[r]

\* The fallback lookup of request r settles in this step.
DynMatchStep(r) == reqPc[r] = "dynMatch" /\ reqPc'[r] = "done"

\* C6: on the dynamic path, when the network fetch failed and the
\* CACHE_NAME bucket holds a value V under the request's key, the handler
\* responds with V.
C6_Original ==
  [][\A r \in Reqs :
       DynMatchStep(r) /\ BucketMatch(CACHE_NAME, reqUrl[r]) # Undefined
         => respondedWith'[r] = BucketMatch(CACHE_NAME, reqUrl[r])]_vars

\* The cache-first lookup of request r settles in this step.
StaticMatchStep(r) == reqPc[r] = "staticMatch" /\ reqPc'[r] # "staticMatch"

\* The responses stored under url in any existing bucket.
CachedResponses(url) ==
  { store[n][url] : n \in Range(cacheOrder) } \ { Undefined }

StaticStep(r) ==
  /\ reqPc[r] \in { "staticMatch", "staticFetch" }
  /\ reqPc'[r] # reqPc[r]

\* C8: on the static path, when the request's key is absent from the
\* CACHE_NAME bucket, exactly one network fetch is made and its response is
\* returned, no bucket changes while the request is handled, and only
\* install and the dynamic path write into a bucket.
C8_Original ==
  [][/\ \A r \in Reqs :
          /\ StaticMatchStep(r) /\ BucketMatch(CACHE_NAME, reqUrl[r]) = Undefined
               => netCalls'[r] = 1 /\ reqPc'[r] = "staticFetch"
          /\ (reqPc[r] = "staticFetch" /\ reqPc'[r] = "done" /\ IsResponse(respondedWith'[r]))
               => /\ netCalls'[r] = 1
                  /\ \E status \in Statuses, body \in Bodies :
                       respondedWith'[r] = NetResponse(reqUrl[r], status, body)
          /\ StaticStep(r) => UNCHANGED cacheVars
     /\ (\E n \in AllCacheNames, u \in AllUrls :
            store'[n][u] # store[n][u] /\ store'[n][u] # Undefined)
          => \/ installPc = "addAll" /\ installPc' = "done"
             \/ \E r \in Reqs : putPc[r] = "put" /\ putPc'[r] = "done"]_vars

InstallFailed == installPromise = "rejected"

\* C9: a worker whose install failed never becomes installed or active,
\* never runs its activate handler or a fetch handler, and never replaces
\* the registration's active worker.
C9_FailedInstallNeverActive ==
  /\ [](InstallFailed =>
          /\ swState \in { "installing", "redundant" }
          /\ activatePc = "idle"
          /\ \A r \in Reqs : reqPc[r] = "none"
          /\ registrationActive # "this")
  /\ [][InstallFailed => registrationActive' = registrationActive]_vars

C9_Witness ==
  /\ InstallFailed
  /\ swState = "redundant"
  /\ registrationActive = "previous"

FetchHandled == \E r \in Reqs : reqPc[r] # "none"

InstallBeforeActivate ==
  activatePc # "idle" => installPc = "done" /\ installPromise = "fulfilled"

StaleBuckets == Range(cacheOrder) \ { CACHE_NAME }

\* C11: the worker has claimed its clients only when no bucket with a name
\* other than CACHE_NAME exists any more.
C11_Original == claimed => StaleBuckets = {}

CleanupSettled == activatePromise \in { "fulfilled", "rejected" }

\* C12: in every activation, once the cleanup has settled, with or without
\* a failed caches.keys or caches.delete, clients.claim has been called.
C12_ClaimDespiteCleanupFailure == CleanupSettled => claimed

C12_Witness ==
  /\ swState = "activated"
  /\ activatePromise = "rejected"
  /\ \E n \in AllCacheNames : deletePromise[n] = "rejected"
  /\ claimed

\* The keys of the dynamic resource the CACHE_NAME bucket holds an entry for.
ReflectionsEntries ==
  { u \in ReflectionsUrls : BucketMatch(CACHE_NAME, u) # Undefined }

\* C13: whatever loads of the reflections data the page has issued, the
\* CACHE_NAME bucket holds at most one entry for the dynamic resource.
C13_Original == Cardinality(ReflectionsEntries) <= 1

\* The requests whose cache write under url completes in this step.
Writers(url) ==
  { r \in Reqs : reqUrl[r] = url /\ putPc[r] = "put" /\ putPc'[r] = "done" }

\* C14: the entry under a key of the dynamic resource changes only when the
\* cache write of a fetch of that key completes, and it then is exactly
\* that fetch's response, whatever the entry was before and whichever other
\* writes of the key are still in flight: the write that completes last
\* decides the entry.
C14_LastWriteWins ==
  [][\A u \in ReflectionsUrls :
       IF Writers(u) = {}
       THEN BucketMatch(CACHE_NAME, u)' = BucketMatch(CACHE_NAME, u)
       ELSE \E r \in Writers(u) : BucketMatch(CACHE_NAME, u)' = respondedWith[r]]_vars

C14_Witness ==
  \E r, q \in Reqs :
    /\ r < q
    /\ reqUrl[r] = reqUrl[q]
    /\ UrlIncludesMarker(reqUrl[r])
    /\ putPc[r] = "done" /\ putPc[q] = "done"
    /\ respondedWith[r] # respondedWith[q]
    /\ BucketMatch(CACHE_NAME, reqUrl[r]) = respondedWith[r]

\* Request r has been answered and makes no further call.
NoCallAfterDone(r) ==
  reqPc[r] = "done"
    => /\ reqPc'[r] = "done"
       /\ netCalls'[r] = netCalls[r]
       /\ matchCalls'[r] = matchCalls[r]
       /\ respondedWith'[r] = respondedWith[r]

\* C15: on the static path, when the key was not cached and the network
\* fetch fails, the caller gets the failed fetch after one cache lookup and
\* one network attempt, nothing more is tried, and no bucket changes.
C15_StaticFailureSurfaced ==
  [][\A r \in Reqs :
       /\ (reqPc[r] = "staticFetch" /\ reqPc'[r] # "staticFetch"
             /\ ~IsResponse(respondedWith'[r]))
            => /\ respondedWith'[r] = NetworkError
               /\ reqPc'[r] = "done"
               /\ netCalls'[r] = 1
               /\ matchCalls'[r] = 1
               /\ UNCHANGED cacheVars
       /\ ~UrlIncludesMarker(reqUrl[r]) => NoCallAfterDone(r)]_vars

C15_Witness ==
  \E r \in Reqs :
    /\ reqPc[r] = "done"
    /\ ~UrlIncludesMarker(reqUrl[r])
    /\ respondedWith[r] = NetworkError
    /\ netCalls[r] = 1

\* C16: on the dynamic path, when the network fetch failed and nothing is
\* cached under the request's key, the handler answers undefined after one
\* network attempt and one cache lookup, tries nothing more, and changes no
\* bucket.
C16_DynamicMissReturnsUndefined ==
  [][\A r \in Reqs :
       /\ (DynMatchStep(r) /\ CachedResponses(reqUrl[r]) = {})
            => /\ respondedWith'[r] = Undefined
               /\ netCalls'[r] = 1
               /\ matchCalls'[r] = 1
               /\ UNCHANGED cacheVars
       /\ (UrlIncludesMarker(reqUrl[r]) /\ putPc[r] = "none") => NoCallAfterDone(r)]_vars

C16_Witness ==
  \E r \in Reqs :
    /\ reqPc[r] = "done"
    /\ UrlIncludesMarker(reqUrl[r])
    /\ respondedWith[r] = Undefined
    /\ netCalls[r] = 1
    /\ matchCalls[r] = 1

\* Load q of the page completed successfully through the worker: its
\* response rendered entries and its cache write is done.
LoadSucceeded(q) ==
  /\ UrlIncludesMarker(reqUrl[q])
  /\ putPc[q] = "done"
  /\ LoadReflectionsShows(respondedWith[q]).shows = "entries"

\* C17: when a load of the reflections data succeeded through the worker,
\* a later load (Date.now() has not gone back) whose network fetch fails is
\* answered from the cache and renders the entries of an earlier successful
\* load, not the error message.
C17_Original ==
  [][\A r \in Reqs :
       LET earlier == { q \in Reqs : /\ q < r
                                    /\ LoadSucceeded(q)
                                    /\ Timestamp(reqUrl[q]) <= Timestamp(reqUrl[r]) }
       IN  DynMatchStep(r) /\ earlier # {}
             => \E q \in earlier :
                  LoadReflectionsShows(respondedWith'[r]) = LoadReflectionsShows(respondedWith[q])]_vars

\* C18: a response the worker serves from the cache, on a static hit or on
\* the dynamic fallback, is the entry of the CACHE_NAME bucket under the
\* request's key.
C18_Original ==
  [][\A r \in Reqs :
       (DynMatchStep(r) \/ StaticMatchStep(r)) /\ IsResponse(respondedWith'[r])
         => respondedWith'[r] = BucketMatch(CACHE_NAME, reqUrl[r])]_vars

GoodEntry(x) == IsResponse(x) /\ Ok(x)

\* C19: an OK response cached under a key of the dynamic resource is only
\* ever replaced by another OK response.
C19_Original ==
  [][\A u \in ReflectionsUrls :
       GoodEntry(BucketMatch(CACHE_NAME, u)) => GoodEntry(BucketMatch(CACHE_NAME, u)')]_vars
====
